---- MODULE Spec2Model ----
(***************************************************************************)
(* Model of src/groups/SymmetricGroups.py: the groups Sym, C2 and Klein4   *)
(* acting by generalized permutation matrices, the builder                 *)
(* oneline2matrix and the orbit based solver get_equivariant_basis.        *)
(*                                                                         *)
(* Conventions.  A (d, d) array is a function [0..d-1 -> [0..d-1 -> Int]], *)
(* indexed as the code indexes it.  A Python list or 1-d array that is     *)
(* built, sliced or flipped is a sequence; Python index k is TLA+ index    *)
(* k + 1 (see At).  Entries are integers: the arrays the code builds are   *)
(* int8 with entries in {-1, 0, 1}, and sums and products of at most d of  *)
(* them stay far inside int8 for the dimensions explored here.  The numpy  *)
(* and scipy operations (@, diagonal, norm, allclose, unique, coo_matrix)  *)
(* are modelled by the exact array arithmetic they compute; exceptions are *)
(* modelled as a result marked `raised`.                                   *)
(***************************************************************************)
EXTENDS Integers, Sequences, FiniteSets, TLC

(* ------------------------------ bounds --------------------------------- *)

\* largest dimension of the matrices handed to get_equivariant_basis
MaxDim == 4

\* largest dimension of the matrices handed to two runs of it
MaxDimPair == 3

\* largest dimension of the matrices handed to the C2 and Klein4 constructors
MaxDimGen == 2

\* largest d handed to C2.canonical_group and Klein4.canonical_group
MaxCanonD == 12

\* longest one-line notation handed to oneline2matrix
MaxLen == 3

(* ----------------------- Python / numpy helpers ------------------------ *)

\* s[k] for a Python index k >= 0
At(s, k) == s[k + 1]

Abs(x) == IF x < 0 THEN -x ELSE x

RECURSIVE SumSeq(_)
SumSeq(s) == IF s = <<>> THEN 0 ELSE Head(s) + SumSeq(Tail(s))

RECURSIVE ProdSeq(_)
ProdSeq(s) == IF s = <<>> THEN 1 ELSE Head(s) * ProdSeq(Tail(s))

\* np.flip of a 1-d array
Flip(s) == [k \in 1..Len(s) |-> s[Len(s) + 1 - k]]

\* s[:n] for n > 0
SliceHead(s, n) == SubSeq(s, 1, IF n < Len(s) THEN n ELSE Len(s))

\* s[-n:] for n > 0
SliceTail(s, n) == SubSeq(s, IF n < Len(s) THEN Len(s) - n + 1 ELSE 1, Len(s))

\* s[i:-1] for i >= 0
SliceToLast(s, i) == SubSeq(s, i + 1, Len(s) - 1)

\* the values of a sequence, as a set (np.unique)
Unique(s) == { s[k] : k \in DOMAIN s }

\* the dimension of a square array
Dim(m) == Cardinality(DOMAIN m)

\* np.eye(d)
Eye(d) == [i \in 0..(d - 1) |-> [j \in 0..(d - 1) |-> IF i = j THEN 1 ELSE 0]]

\* the sequence f[0], ..., f[d-1] of a function on 0..d-1
AsSeq(f, d) == [k \in 1..d |-> f[k - 1]]

\* A @ B for (d, d) arrays
MatMul(A, B) ==
  LET d == Dim(A)
  IN  [i \in 0..(d - 1) |-> [j \in 0..(d - 1) |->
         SumSeq([k \in 1..d |-> A[i][k - 1] * B[k - 1][j]])]]

\* h.diagonal()
Diagonal(h) == [i \in DOMAIN h |-> h[i][i]]

\* np.trace(h), sum(h.diagonal())
Trace(h) == SumSeq(AsSeq(Diagonal(h), Dim(h)))

\* the squared norm of column j: norm(h, axis=0)[j] is 1 iff this is 1
ColNormSq(h, j) == SumSeq([k \in 1..Dim(h) |-> h[k - 1][j] * h[k - 1][j]])

\* the value standing for "no array": the call raised
NoArray == <<>>

(* ------------------------- Sym.oneline2matrix -------------------------- *)

\* scipy.sparse.coo_matrix((data, (rows, cols)), shape=(d, d)): the rows are
\* range(d), so no two entries share a cell and nothing is summed
CooMatrix(data, cols, d) ==
  [i \in 0..(d - 1) |-> [j \in 0..(d - 1) |->
     IF j = At(cols, i) THEN At(data, i) ELSE 0]]

\* the uniqueness assertion of oneline2matrix, on the notation as given
UniqueCheck(oneline_notation) ==
  Len(oneline_notation) = Cardinality(Unique(oneline_notation))

\* Sym.oneline2matrix(oneline_notation, reflexions); reflexions = <<>> stands
\* for None (and for the empty list, which `not reflexions` treats alike)
oneline2matrix(oneline_notation, reflexions) ==
  LET d    == Len(oneline_notation)
      refl == IF reflexions = <<>> THEN [k \in 1..d |-> 1] ELSE reflexions
      cols == [k \in 1..d |-> Abs(oneline_notation[k])]
  IN  IF ~UniqueCheck(oneline_notation)
        THEN [raised |-> TRUE, M |-> NoArray]
      ELSE IF Len(refl) # d
        THEN [raised |-> TRUE, M |-> NoArray]
      ELSE IF \E k \in 1..d : cols[k] >= d
        \* coo_matrix rejects a column index outside the shape
        THEN [raised |-> TRUE, M |-> NoArray]
      ELSE [raised |-> FALSE, M |-> CooMatrix(refl, cols, d)]

(* ----------------------------- Sym.__init__ --------------------------- *)

\* lines 38, 42: every column of h has norm 1
Orthogonal(h) == \A j \in DOMAIN h : ColNormSq(h, j) = 1

\* lines 39, 43: h has a negative entry
HasNegative(h) == \E i \in DOMAIN h : \E j \in DOMAIN h : h[i][j] < 0

\* lines 51-53: the diagonals of the generator list repeated four times, and
\* the dimensions whose diagonal entry is 1 in each of them
InvDims(discrete_generators, d) ==
  LET tiled == discrete_generators \o discrete_generators
                 \o discrete_generators \o discrete_generators
      h_diags == [k \in 1..Len(tiled) |-> Diagonal(tiled[k])]
  IN  [x \in 0..(d - 1) |-> \A k \in 1..Len(h_diags) : h_diags[k][x] = 1]

\* the object left by a constructor that raised
NoGroup ==
  [raised |-> TRUE, d |-> 0, is_permutation |-> FALSE,
   discrete_generators |-> <<>>, inv_dims |-> <<>>, n_inv_dims |-> 0]

\* Sym.__init__(generators)
Sym_init(generators) ==
  IF ~(Len(generators) > 0) THEN NoGroup
  ELSE
    LET d == Dim(generators[1])
    IN  IF \E k \in 1..Len(generators) : ~Orthogonal(generators[k]) THEN NoGroup
        ELSE
          LET inv == InvDims(generators, d)
          IN  [raised |-> FALSE,
               d |-> d,
               is_permutation |-> ~\E k \in 1..Len(generators) : HasNegative(generators[k]),
               discrete_generators |-> generators,
               inv_dims |-> inv,
               n_inv_dims |-> Cardinality({ x \in 0..(d - 1) : inv[x] })]

\* Sym.generators_characters
generators_characters(G) ==
  [k \in 1..Len(G.discrete_generators) |-> Trace(G.discrete_generators[k])]

(* ---------------------------------- C2 --------------------------------- *)

\* line 108: is_eye
IsEye(h, d) == Trace(h) = d

\* IsCyclic with the elementwise product h * h in place of h @ h
IsCyclicElementwise(h, d) ==
  SumSeq([k \in 1..d |-> h[k - 1][k - 1] * h[k - 1][k - 1]]) = d

\* line 109: is_cyclic
IsCyclic(h, d) == Trace(MatMul(h, h)) = d

\* C2.__init__(generator)
C2_init(generator) ==
  LET G == Sym_init(<<generator>>)
  IN  IF G.raised THEN NoGroup
      ELSE IF Len(G.discrete_generators) # 1 THEN NoGroup
      ELSE IF IsEye(G.discrete_generators[1], G.d) THEN NoGroup
      ELSE IF ~IsCyclic(G.discrete_generators[1], G.d) THEN NoGroup
      ELSE G

\* np.arange(d)
Arange(d) == [k \in 1..d |-> k - 1]

\* CanonicalSigns with the parity test turned around
CanonicalSignsOddFlip(d, inv_dims) ==
  LET r == [k \in 1..d |-> 1]
  IN  IF d % 2 > 0 /\ inv_dims % 2 = 1
        THEN [r EXCEPT ![(d \div 2) + 1] = -1 * @]
        ELSE r

\* lines 133-137: the signs r, the middle one flipped when d is odd and the
\* requested number of invariant dimensions is even
CanonicalSigns(d, inv_dims) ==
  LET r == [k \in 1..d |-> 1]
  IN  IF d % 2 > 0 /\ inv_dims % 2 = 0
        THEN [r EXCEPT ![(d \div 2) + 1] = -1 * @]
        ELSE r

\* lines 140-143: inv_dims after the parity adjustment
AdjustedInvDims(d, inv_dims) ==
  IF ~(d % 2 > 0) /\ inv_dims % 2 > 0 THEN inv_dims + 1 ELSE inv_dims

\* lines 129-143: the budget `id` that fixes pairs of dimensions
Budget(d, inv_dims) ==
  IF d % 2 > 0
    THEN IF inv_dims % 2 = 0 THEN inv_dims ELSE inv_dims - 1
    ELSE AdjustedInvDims(d, inv_dims)

\* p[:n] = vals
AssignHead(p, n, vals) ==
  [k \in 1..Len(p) |-> IF k <= n THEN vals[k] ELSE p[k]]

\* p[-n:] = vals
AssignTail(p, n, vals) ==
  [k \in 1..Len(p) |-> IF k > Len(p) - n THEN vals[k - (Len(p) - n)] ELSE p[k]]

\* lines 132, 146-150: the one-line notation p
CanonicalNotation(d, id) ==
  LET p == Flip(Arange(d))
      n == id \div 2
  IN  IF n > 0
        THEN LET p_copy == p
                 p1 == AssignHead(p, n, Flip(SliceTail(p_copy, n)))
             IN  AssignTail(p1, n, Flip(SliceHead(p_copy, n)))
        ELSE p

\* C2.canonical_group(d, inv_dims)
C2_canonical_group(d, inv_dims) ==
  IF ~(d > 0) THEN NoGroup
  ELSE IF ~(inv_dims < d - 1) THEN NoGroup
  ELSE
    LET H == oneline2matrix(CanonicalNotation(d, Budget(d, inv_dims)),
                            CanonicalSigns(d, inv_dims))
    IN  IF H.raised THEN NoGroup
        ELSE LET G == C2_init(H.M)
             IN  IF G.raised THEN NoGroup
                 ELSE IF G.n_inv_dims # AdjustedInvDims(d, inv_dims) THEN NoGroup
                 ELSE G

(* -------------------------------- Klein4 ------------------------------- *)

\* lines 209, 210: a generator is cyclic
Cyclic(a, d) == MatMul(a, a) = Eye(d)

\* CompositionCyclic with the products grouped as (a @ a) @ (b @ b)
CompositionCyclicRegrouped(a, b, d) == MatMul(MatMul(a, a), MatMul(b, b)) = Eye(d)

\* line 211: the composition a.b is cyclic
CompositionCyclic(a, b, d) == MatMul(MatMul(a, b), MatMul(a, b)) = Eye(d)

\* line 212: the third action is not trivial
CompositionNonTrivial(a, b, d) == MatMul(a, b) # Eye(d)

\* Klein4.__init__(generators)
Klein4_init(generators) ==
  IF Len(generators) # 2 THEN NoGroup
  ELSE
    LET G == Sym_init(generators)
    IN  IF G.raised THEN NoGroup
        ELSE
          LET a == G.discrete_generators[1]
              b == G.discrete_generators[2]
          IN  IF ~Cyclic(a, G.d) THEN NoGroup
              ELSE IF ~Cyclic(b, G.d) THEN NoGroup
              ELSE IF ~CompositionCyclic(a, b, G.d) THEN NoGroup
              ELSE IF ~CompositionNonTrivial(a, b, G.d) THEN NoGroup
              ELSE G

\* Klein4.discrete_actions
discrete_actions(G) ==
  LET a == G.discrete_generators[1]
      b == G.discrete_generators[2]
  IN  <<Eye(G.d), a, b, MatMul(a, b)>>

\* Klein4.is_canonical
is_canonical(G) ==
  \A k \in 1..Len(generators_characters(G)) : generators_characters(G)[k] = 0

\* np.array_split(s, 4): the first Len(s) % 4 sections hold one more element
ArraySplit4(s) ==
  LET each  == Len(s) \div 4
      extra == Len(s) % 4
      start(k) == (k - 1) * each + (IF k - 1 < extra THEN k - 1 ELSE extra)
      size(k)  == each + (IF k - 1 < extra THEN 1 ELSE 0)
  IN  [k \in 1..4 |-> SubSeq(s, start(k) + 1, start(k) + size(k))]

\* CanonicalB with the quarter blocks in the order idx3, idx2, idx1, idx0
CanonicalBReversedBlocks(idx) == idx[4] \o idx[3] \o idx[2] \o idx[1]

\* line 243: the notation of b, np.concatenate((idx[2], idx[3], idx[0], idx[1]))
CanonicalB(idx) == idx[3] \o idx[4] \o idx[1] \o idx[2]

\* Klein4.canonical_group(d)
Klein4_canonical_group(d) ==
  IF ~(d > 0) THEN NoGroup
  ELSE
    LET a   == Flip(Arange(d))
        mod == d % 4
        idx == ArraySplit4(Arange(d - mod))
        b_r == [k \in 1..d |-> 1]
    IN  IF mod > 0
          \* line 241, NotImplementedError
          THEN NoGroup
          ELSE
            LET rep_a == oneline2matrix(a, <<>>)
                rep_b == oneline2matrix(CanonicalB(idx), b_r)
            IN  IF rep_a.raised \/ rep_b.raised THEN NoGroup
                ELSE Klein4_init(<<rep_a.M, rep_b.M>>)

(* --------------------- C2.get_equivariant_basis ------------------------ *)

\* OrbitMap with the np.abs left out: w = P @ np.arange(n)
OrbitMapSigned(P) ==
  LET n == Dim(P)
  IN  [i \in 0..(n - 1) |-> SumSeq([k \in 1..n |-> P[i][k - 1] * (k - 1)])]

\* w = np.abs(P) @ np.arange(n): w[i] is the column of the nonzero of row i
OrbitMap(P) ==
  LET n == Dim(P)
  IN  [i \in 0..(n - 1) |-> SumSeq([k \in 1..n |-> Abs(P[i][k - 1]) * (k - 1)])]

\* np.sum(P[cyc, :], axis=1): the row sums of P over the rows of cyc
RowSums(P, cyc) ==
  [k \in 1..Len(cyc) |-> SumSeq(AsSeq(P[cyc[k]], Dim(P)))]

\* ContributesColumn testing the size of the product only: abs(np.prod(p)) == 1
ContributesColumnAbs(p) == Abs(ProdSeq(p)) = 1

\* the test `np.prod(p) == 1` that lets a cycle contribute a column
ContributesColumn(p) == ProdSeq(p) = 1

\* CycleValues with the slice one place off: np.prod(p[i+1:])
CycleValuesShifted(p) == [k \in 1..Len(p) |-> ProdSeq(SubSeq(p, k + 1, Len(p)))]

\* [np.prod(p[i:-1]) for i in range(len(p))]
CycleValues(p) == [k \in 1..Len(p) |-> ProdSeq(SliceToLast(p, k - 1))]

\* the condition of the inner loop, `w[a] in pendind_dims`
InnerCond(r) == r.w[r.a] \in r.pendind_dims

\* the frame of a call on entering the outer loop (lines 166-172)
GebEnter(P) ==
  [loc          |-> "outer",
   w            |-> OrbitMap(P),
   pendind_dims |-> 0..(Dim(P) - 1),
   cycles       |-> <<>>,
   a            |-> 0,
   Q            |-> <<>>,
   i            |-> 0]

\* lines 175-179: one index is popped, in any order, and opens a cycle
GebPop(r, r2) ==
  /\ r.loc = "outer"
  /\ r.pendind_dims # {}
  /\ \E x \in r.pendind_dims :
       r2 = [r EXCEPT !.a = x,
                      !.pendind_dims = @ \ {x},
                      !.cycles = Append(@, <<x>>),
                      !.loc = "inner"]

\* GebFollow with `pendind_dims.remove(a)` left out
GebFollowNoRemove(r, r2) ==
  /\ r.loc = "inner"
  /\ InnerCond(r)
  /\ LET nxt == r.w[r.a]
         last == Len(r.cycles)
     IN  r2 = [r EXCEPT !.a = nxt,
                        !.cycles = [@ EXCEPT ![last] = Append(@, nxt)]]

\* lines 180-183: one turn of the inner loop
GebFollow(r, r2) ==
  /\ r.loc = "inner"
  /\ InnerCond(r)
  /\ LET nxt == r.w[r.a]
         last == Len(r.cycles)
     IN  r2 = [r EXCEPT !.a = nxt,
                        !.cycles = [@ EXCEPT ![last] = Append(@, nxt)],
                        !.pendind_dims = @ \ {nxt}]

\* line 180: the inner loop ends
GebEndOrbit(r, r2) ==
  /\ r.loc = "inner"
  /\ ~InnerCond(r)
  /\ r2 = [r EXCEPT !.loc = "outer"]

\* lines 175, 188: the outer loop ends; Q = np.zeros((n, 0))
GebEndDiscovery(r, r2) ==
  /\ r.loc = "outer"
  /\ r.pendind_dims = {}
  /\ r2 = [r EXCEPT !.loc = "eigen", !.Q = <<>>, !.i = 0]

\* Q with one zero column stacked on, then Q[cyc, -1] = vals
SetColumn(n, cyc, vals) ==
  [x \in 0..(n - 1) |->
     IF \E k \in 1..Len(cyc) : cyc[k] = x
       THEN vals[CHOOSE k \in 1..Len(cyc) : cyc[k] = x]
       ELSE 0]

\* lines 189-193: one turn of the loop over the cycles; Q is the sequence
\* of its columns
GebEigen(P, r, r2) ==
  /\ r.loc = "eigen"
  /\ r.i < Len(r.cycles)
  /\ LET cyc == At(r.cycles, r.i)
         p   == RowSums(P, cyc)
     IN  r2 = [r EXCEPT !.i = @ + 1,
                        !.Q = IF ContributesColumn(p)
                                THEN Append(@, SetColumn(Dim(P), cyc, CycleValues(p)))
                                ELSE @]

\* line 194
GebReturn(r, r2) ==
  /\ r.loc = "eigen"
  /\ r.i = Len(r.cycles)
  /\ r2 = [r EXCEPT !.loc = "done"]

(* ------------------------------ state ---------------------------------- *)

VARIABLES
  pc,    \* "idle", "running" or "done"
  call,  \* the call made: its name and its arguments
  ret,   \* what the call returned, or that it raised
  run,   \* the frame of the running get_equivariant_basis
  run2   \* the frame of a second get_equivariant_basis on the same P

vars == <<pc, call, ret, run, run2>>

NoCall == [op |-> "none"]
NoRet  == [raised |-> FALSE]
NoRun  == [loc |-> "none"]

Init ==
  /\ pc = "idle"
  /\ call = NoCall
  /\ ret = NoRet
  /\ run = NoRun
  /\ run2 = NoRun

(* ----------------------- calls of oneline2matrix ----------------------- *)

\* the notations tried: lists of 1..MaxLen integers, negative and
\* out-of-range values included
Notations ==
  UNION { [1..d -> (-d)..d] : d \in 1..MaxLen }

\* the sign lists tried: None, and every list of +-1 of length 1..MaxLen
Reflexions ==
  {<<>>} \cup UNION { [1..d -> {-1, 1}] : d \in 1..MaxLen }

Call_oneline2matrix ==
  /\ pc = "idle"
  /\ \E nt \in Notations, rf \in Reflexions :
       /\ call' = [op |-> "oneline2matrix", oneline_notation |-> nt, reflexions |-> rf]
       /\ ret' = oneline2matrix(nt, rf)
  /\ pc' = "done"
  /\ UNCHANGED <<run, run2>>

NextOneline == Call_oneline2matrix

SpecOneline == Init /\ [][NextOneline]_vars

(* ------------------------ calls of C2 and Klein4 ----------------------- *)

\* every (d, d) array with entries in {-1, 0, 1}
SignMatrices(d) == [0..(d - 1) -> [0..(d - 1) -> {-1, 0, 1}]]

\* the (d, d) arrays with one +-1 in each row, at any column: what the
\* placement `signs[i] at (i, cols[i])` can build
RowMonomials(d) ==
  { [i \in 0..(d - 1) |-> [j \in 0..(d - 1) |-> IF j = c[i] THEN s[i] ELSE 0]] :
      c \in [0..(d - 1) -> 0..(d - 1)], s \in [0..(d - 1) -> {-1, 1}] }

Call_C2_init ==
  /\ pc = "idle"
  /\ \E d \in 1..MaxDimGen : \E h \in SignMatrices(d) :
       /\ call' = [op |-> "C2", generator |-> h]
       /\ ret' = C2_init(h)
  /\ pc' = "done"
  /\ UNCHANGED <<run, run2>>

Call_C2_canonical_group ==
  /\ pc = "idle"
  /\ \E d \in 0..MaxCanonD : \E inv_dims \in (-1)..MaxCanonD :
       /\ call' = [op |-> "C2.canonical_group", d |-> d, inv_dims |-> inv_dims]
       /\ ret' = C2_canonical_group(d, inv_dims)
  /\ pc' = "done"
  /\ UNCHANGED <<run, run2>>

NextC2 ==
  \/ Call_C2_init
  \/ Call_C2_canonical_group

SpecC2 == Init /\ [][NextC2]_vars

\* the generator lists tried: every pair, and every single matrix
GeneratorLists(d) ==
  { <<a, b>> : a \in RowMonomials(d), b \in RowMonomials(d) }
    \cup { <<a>> : a \in RowMonomials(d) }

Call_Klein4_init ==
  /\ pc = "idle"
  /\ \E d \in 1..MaxDimGen : \E gens \in GeneratorLists(d) :
       /\ call' = [op |-> "Klein4", generators |-> gens]
       /\ ret' = Klein4_init(gens)
  /\ pc' = "done"
  /\ UNCHANGED <<run, run2>>

Call_Klein4_canonical_group ==
  /\ pc = "idle"
  /\ \E d \in 0..MaxCanonD :
       /\ call' = [op |-> "Klein4.canonical_group", d |-> d]
       /\ ret' = Klein4_canonical_group(d)
  /\ pc' = "done"
  /\ UNCHANGED <<run, run2>>

NextKlein ==
  \/ Call_Klein4_init
  \/ Call_Klein4_canonical_group

SpecKlein == Init /\ [][NextKlein]_vars

(* -------------------- calls of get_equivariant_basis ------------------- *)

\* the permutations of 0..d-1
Perms(d) ==
  { c \in [0..(d - 1) -> 0..(d - 1)] : \A x, y \in 0..(d - 1) : c[x] = c[y] => x = y }

\* the (d, d) generalized permutation matrices: one +-1 in each row and column
GenPerms(d) ==
  { [i \in 0..(d - 1) |-> [j \in 0..(d - 1) |-> IF j = c[i] THEN s[i] ELSE 0]] :
      c \in Perms(d), s \in [0..(d - 1) -> {-1, 1}] }

\* get_equivariant_basis(P) is entered, P of dimension at most maxd
GebCall(maxd) ==
  /\ pc = "idle"
  /\ \E d \in 1..maxd : \E P \in GenPerms(d) :
       /\ call' = [op |-> "get_equivariant_basis", P |-> P]
       /\ run' = GebEnter(P)
  /\ pc' = "running"
  /\ UNCHANGED <<ret, run2>>

Geb_Call == GebCall(MaxDim)

Geb_Pop ==
  /\ pc = "running"
  /\ GebPop(run, run')
  /\ UNCHANGED <<pc, call, ret, run2>>

Geb_Follow ==
  /\ pc = "running"
  /\ GebFollow(run, run')
  /\ UNCHANGED <<pc, call, ret, run2>>

Geb_EndOrbit ==
  /\ pc = "running"
  /\ GebEndOrbit(run, run')
  /\ UNCHANGED <<pc, call, ret, run2>>

Geb_EndDiscovery ==
  /\ pc = "running"
  /\ GebEndDiscovery(run, run')
  /\ UNCHANGED <<pc, call, ret, run2>>

Geb_Eigen ==
  /\ pc = "running"
  /\ GebEigen(call.P, run, run')
  /\ UNCHANGED <<pc, call, ret, run2>>

Geb_Return ==
  /\ pc = "running"
  /\ GebReturn(run, run')
  /\ pc' = "done"
  /\ ret' = [raised |-> FALSE, Q |-> run.Q]
  /\ UNCHANGED <<call, run2>>

NextBasis ==
  \/ Geb_Call
  \/ Geb_Pop
  \/ Geb_Follow
  \/ Geb_EndOrbit
  \/ Geb_EndDiscovery
  \/ Geb_Eigen
  \/ Geb_Return

SpecBasis == Init /\ [][NextBasis]_vars

(* ------------- two get_equivariant_basis calls on one P ---------------- *)

First_Call == GebCall(MaxDimPair)

Second_Call ==
  /\ pc = "done"
  /\ call.op = "get_equivariant_basis"
  /\ run2' = GebEnter(call.P)
  /\ pc' = "running2"
  /\ UNCHANGED <<call, ret, run>>

Second_Pop ==
  /\ pc = "running2"
  /\ GebPop(run2, run2')
  /\ UNCHANGED <<pc, call, ret, run>>

Second_Follow ==
  /\ pc = "running2"
  /\ GebFollow(run2, run2')
  /\ UNCHANGED <<pc, call, ret, run>>

Second_EndOrbit ==
  /\ pc = "running2"
  /\ GebEndOrbit(run2, run2')
  /\ UNCHANGED <<pc, call, ret, run>>

Second_EndDiscovery ==
  /\ pc = "running2"
  /\ GebEndDiscovery(run2, run2')
  /\ UNCHANGED <<pc, call, ret, run>>

Second_Eigen ==
  /\ pc = "running2"
  /\ GebEigen(call.P, run2, run2')
  /\ UNCHANGED <<pc, call, ret, run>>

Second_Return ==
  /\ pc = "running2"
  /\ GebReturn(run2, run2')
  /\ pc' = "done2"
  /\ UNCHANGED <<call, ret, run>>

NextPair ==
  \/ First_Call
  \/ Geb_Pop
  \/ Geb_Follow
  \/ Geb_EndOrbit
  \/ Geb_EndDiscovery
  \/ Geb_Eigen
  \/ Geb_Return
  \/ Second_Call
  \/ Second_Pop
  \/ Second_Follow
  \/ Second_EndOrbit
  \/ Second_EndDiscovery
  \/ Second_Eigen
  \/ Second_Return

SpecPair == Init /\ [][NextPair]_vars

(* ===================== properties of the basis solver ================== *)

\* the column of the nonzero entry of row i of a generalized permutation
ColOf(P, i) == CHOOSE j \in DOMAIN P : P[i][j] # 0

\* the sign carried by row i
SignOf(P, i) == P[i][ColOf(P, i)]

\* the least set that holds S and is closed under i |-> ColOf(P, i)
RECURSIVE Closure(_, _)
Closure(P, S) ==
  LET T == S \cup { ColOf(P, y) : y \in S }
  IN  IF T = S THEN S ELSE Closure(P, T)

\* the orbits of the underlying permutation of P
Orbits(P) == { Closure(P, {x}) : x \in DOMAIN P }

RECURSIVE ProdOver(_, _)
ProdOver(P, O) ==
  IF O = {} THEN 1
  ELSE LET x == CHOOSE y \in O : TRUE
       IN  SignOf(P, x) * ProdOver(P, O \ {x})

\* the orbits whose signs multiply to +1
PlusOrbits(P) == { O \in Orbits(P) : ProdOver(P, O) = 1 }

Support(q) == { x \in DOMAIN q : q[x] # 0 }

\* P . q for a column q
MatVec(P, q) ==
  [x \in DOMAIN P |-> SumSeq([k \in 1..Dim(P) |-> P[x][k - 1] * q[k - 1]])]

Neg(q) == [x \in DOMAIN q |-> -q[x]]

ReturnedBasis == pc = "done" /\ call.op = "get_equivariant_basis"

\* C1: whatever the order of the pops, every column of the returned Q is a
\* fixed vector of P: P . Q = Q.
C1_FixedColumns ==
  ReturnedBasis =>
    \A k \in 1..Len(ret.Q) : MatVec(call.P, ret.Q[k]) = ret.Q[k]

\* C1 witness: a basis was returned that has a column with a -1 in it, so
\* the signs of P entered the column.
C1_Witness ==
  /\ ReturnedBasis
  /\ \E k \in 1..Len(ret.Q) : \E x \in DOMAIN ret.Q[k] : ret.Q[k][x] = -1

\* C2: the columns of the returned Q correspond one to one to the orbits of
\* sign product +1: each such orbit is the support of exactly one column, whose
\* entries on it are +-1, no column has another support, and the number of
\* columns is the number of those orbits.
C2_ColumnsArePlusOrbits ==
  ReturnedBasis =>
    LET P == call.P
        Q == ret.Q
    IN  /\ \A O \in PlusOrbits(P) :
             Cardinality({ k \in 1..Len(Q) : Support(Q[k]) = O }) = 1
        /\ \A k \in 1..Len(Q) :
             /\ Support(Q[k]) \in PlusOrbits(P)
             /\ \A x \in DOMAIN Q[k] : Q[k][x] \in {-1, 0, 1}
        /\ Len(Q) = Cardinality(PlusOrbits(P))

\* C2 witness: P has an orbit of sign product -1 and an orbit of more than
\* one index of sign product +1, and the basis was returned.
C2_Witness ==
  /\ ReturnedBasis
  /\ \E O \in Orbits(call.P) : ProdOver(call.P, O) = -1
  /\ \E O \in PlusOrbits(call.P) : Cardinality(O) > 1

LoopEnded(r) == r.loc \in {"eigen", "done"}

\* the places (c, k) of the recorded cycles that hold index x
PlacesOf(r, x) ==
  { ck \in { <<c, k>> : c \in 1..Len(r.cycles), k \in 1..Dim(call.P) } :
      /\ ck[2] <= Len(r.cycles[ck[1]])
      /\ r.cycles[ck[1]][ck[2]] = x }

\* C3: when the orbit discovery loop has ended the recorded cycles partition
\* 0..d-1 (each index at exactly one place, the sizes adding up to d) and
\* each cycle is a full cycle of the permutation: the successor of every
\* element is the next one, that of the last is the first.
C3_CyclesPartition ==
  (call.op = "get_equivariant_basis" /\ LoopEnded(run)) =>
    LET P == call.P
        cycles == run.cycles
    IN  /\ \A x \in DOMAIN P : Cardinality(PlacesOf(run, x)) = 1
        /\ SumSeq([c \in 1..Len(cycles) |-> Len(cycles[c])]) = Dim(P)
        /\ \A c \in 1..Len(cycles) : \A k \in 1..Len(cycles[c]) :
             /\ cycles[c][k] \in DOMAIN P
             /\ ColOf(P, cycles[c][k]) = cycles[c][(k % Len(cycles[c])) + 1]

\* C3 witness: the loop has ended with a cycle of two or more indices beside
\* another cycle.
C3_Witness ==
  /\ call.op = "get_equivariant_basis"
  /\ LoopEnded(run)
  /\ Len(run.cycles) >= 2
  /\ \E c \in 1..Len(run.cycles) : Len(run.cycles[c]) >= 2

CycleSets(r) == { Unique(r.cycles[c]) : c \in 1..Len(r.cycles) }

\* C10: two runs on the same P, whatever their pop orders, record the same
\* orbits as sets and return the same number of columns, and for each
\* column of one run the other run has the column of the same orbit, equal
\* to it or to its negative.
C10_OrderIndependent ==
  pc = "done2" =>
    /\ CycleSets(run) = CycleSets(run2)
    /\ Len(run.Q) = Len(run2.Q)
    /\ \A k \in 1..Len(run.Q) :
         Cardinality({ m \in 1..Len(run2.Q) :
                         /\ Support(run2.Q[m]) = Support(run.Q[k])
                         /\ run2.Q[m] \in {run.Q[k], Neg(run.Q[k])} }) = 1

\* C10 witness: two finished runs that recorded their cycles differently,
\* with a column of one the negative of a column of the other.
C10_Witness ==
  /\ pc = "done2"
  /\ run.cycles # run2.cycles
  /\ \E k \in 1..Len(run.Q) : \E m \in 1..Len(run2.Q) :
       /\ run2.Q[m] = Neg(run.Q[k])
       /\ \E n \in 1..Len(run.Q) : n # k /\ run2.Q[m] # run.Q[n]

(* ========================= properties of C2 ============================ *)

ReturnedC2Canonical == pc = "done" /\ call.op = "C2.canonical_group"

\* C4: for d > 0 and 0 <= inv_dims < d - 1, C2.canonical_group(d, inv_dims)
\* returns a group (nothing raises) whose n_inv_dims is inv_dims, or
\* inv_dims + 1 when d is even and inv_dims is odd.
C4_CanonicalInvDims ==
  (ReturnedC2Canonical /\ call.d > 0 /\ 0 <= call.inv_dims /\ call.inv_dims < call.d - 1) =>
    /\ ~ret.raised
    /\ ret.n_inv_dims =
         IF call.d % 2 = 0 /\ call.inv_dims % 2 = 1
           THEN call.inv_dims + 1
           ELSE call.inv_dims

\* C4 witness: an even d with an odd inv_dims returned a group with
\* inv_dims + 1 invariant dimensions.
C4_Witness ==
  /\ ReturnedC2Canonical
  /\ call.d % 2 = 0
  /\ call.inv_dims = 3
  /\ ~ret.raised
  /\ ret.n_inv_dims = 4

\* exactly one entry of each column is +1 or -1, the others are 0
OneEntryPerColumn(h) ==
  \A j \in DOMAIN h :
    /\ Cardinality({ i \in DOMAIN h : h[i][j] # 0 }) = 1
    /\ \A i \in DOMAIN h : h[i][j] \in {-1, 0, 1}

ReturnedC2 == pc = "done" /\ call.op = "C2"

\* C7: a generator h the C2 constructor accepts has h.h = I and h # I as
\* full matrices, and on the matrices with one +-1 per column the
\* constructor accepts exactly those with h # I and h.h = I.
C7_TraceTestsExact ==
  ReturnedC2 =>
    LET h == call.generator
        d == Dim(h)
    IN  /\ ~ret.raised => (MatMul(h, h) = Eye(d) /\ h # Eye(d))
        /\ OneEntryPerColumn(h) =>
             (~ret.raised <=> (h # Eye(d) /\ MatMul(h, h) = Eye(d)))

\* C7 witness: an accepted generator that moves a coordinate and carries
\* a -1.
C7_Witness ==
  /\ ReturnedC2
  /\ ~ret.raised
  /\ \E i \in DOMAIN call.generator : call.generator[i][i] = 0
  /\ \E i, j \in DOMAIN call.generator : call.generator[i][j] = -1

(* ======================= properties of Klein4 ========================== *)

ReturnedKlein == pc = "done" /\ call.op = "Klein4"

\* C5 as stated: the four actions [I, a, b, a.b] of an accepted pair of
\* generators are pairwise distinct, so neither a nor b is the identity.
C5_ActionsDistinct ==
  (ReturnedKlein /\ ~ret.raised) =>
    LET acts == discrete_actions(ret)
    IN  /\ \A k, m \in 1..4 : k # m => acts[k] # acts[m]
        /\ acts[2] # Eye(ret.d)
        /\ acts[3] # Eye(ret.d)

\* C6: the actions {I, a, b, a.b} of an accepted pair are closed under the
\* matrix product, each is its own inverse, and a.b = b.a.
C6_ClosedAbelian ==
  (ReturnedKlein /\ ~ret.raised) =>
    LET acts == discrete_actions(ret)
        I == Eye(ret.d)
    IN  /\ \A k, m \in 1..4 : \E n \in 1..4 : MatMul(acts[k], acts[m]) = acts[n]
        /\ \A k \in 1..4 : MatMul(acts[k], acts[k]) = I
        /\ MatMul(acts[2], acts[3]) = MatMul(acts[3], acts[2])

\* C6 witness: an accepted pair of two non-identity generators, one of
\* them with a -1.
C6_Witness ==
  /\ ReturnedKlein
  /\ ~ret.raised
  /\ ret.discrete_generators[1] # Eye(ret.d)
  /\ ret.discrete_generators[2] # Eye(ret.d)
  /\ ~ret.is_permutation

ReturnedKleinCanonical == pc = "done" /\ call.op = "Klein4.canonical_group"

\* the one-line notation of the rows of a generalized permutation
NotationOf(M) == [k \in 1..Dim(M) |-> ColOf(M, k - 1)]

ReturnedOneline == pc = "done" /\ call.op = "oneline2matrix"

\* the notation, read by absolute value, is a permutation of 0..d-1
IsPermutationNotation(nt) ==
  { Abs(nt[k]) : k \in DOMAIN nt } = 0..(Len(nt) - 1)

\* one nonzero entry in each row and in each column
OneNonzeroPerRowAndColumn(M) ==
  /\ \A i \in DOMAIN M : Cardinality({ j \in DOMAIN M : M[i][j] # 0 }) = 1
  /\ \A j \in DOMAIN M : Cardinality({ i \in DOMAIN M : M[i][j] # 0 }) = 1

\* C8 as stated: oneline2matrix raises on every notation that, read by
\* absolute value, is not a permutation of 0..d-1, so that every matrix it
\* returns has one nonzero entry in each row and each column, the sign of
\* row i at column |notation[i]|.
C8_RejectsNonPermutations ==
  ReturnedOneline =>
    /\ ~IsPermutationNotation(call.oneline_notation) => ret.raised
    /\ ~ret.raised =>
         /\ OneNonzeroPerRowAndColumn(ret.M)
         /\ \A k \in 1..Len(call.oneline_notation) :
              ret.M[k - 1][Abs(call.oneline_notation[k])] =
                IF call.reflexions = <<>> THEN 1 ELSE call.reflexions[k]

====
